---- MODULE Spec2Model ----
(***************************************************************************)
(* Model of the library access layer of ozp-backend:                       *)
(*   ozpcenter/api/library/model_access.py                                 *)
(*   ozpcenter/api/access_control/model_access.py                          *)
(*                                                                         *)
(* State: the LibraryEntry table, the soft-delete flag of the listings,    *)
(* the dismissed-by relation of the notifications, the notification store, *)
(* the AccessControl table and the django cache.  Every handler is one     *)
(* action.  Three history variables describe the last request: call        *)
(* (operation and arguments), ret (what it returned or that it raised) and *)
(* log (the repository and cache calls it issued, in order).  Where        *)
(* requests run concurrently, a handler is one action per repository or    *)
(* cache call, and inflight holds the position and the local variables of  *)
(* every request that has started.                                         *)
(*                                                                         *)
(* Conventions: an optional value is a sequence of length 0 (Python None,  *)
(* or an absent dict key) or 1.  A python list is a sequence.  A cached    *)
(* QuerySet or model instance is the snapshot taken when it was pickled    *)
(* by cache.set.                                                           *)
(***************************************************************************)
EXTENDS Integers, Sequences, FiniteSets, TLC

VARIABLES entries, deleted, notifications, dismissed, cache, call, ret, log,
          access_controls, inflight

vars == <<entries, deleted, notifications, dismissed, cache, call, ret, log,
          access_controls, inflight>>

-----------------------------------------------------------------------------
(* Bounds *)

NumListings == 2      \* listings in the catalog, ids 1..NumListings
MaxEntries == 2       \* rows of the LibraryEntry table
MaxBatch == 2         \* length of a batch_update payload
MaxIds == 3           \* length of a notification's _bookmark_listing_ids
MaxRequests == 2      \* requests that are served concurrently

-----------------------------------------------------------------------------
(* Values *)

None == "None"        \* Python None where the other values are strings

Profiles == {"alice", "Bob.B"}          \* usernames that have a Profile
Usernames == Profiles \cup {"ghost"}    \* "ghost" has no Profile
Folders == {"f1"}
ListingIds == 1 .. NumListings
ListingIdArgs == 0 .. NumListings       \* 0: an id of no listing
EntryIdArgs == 1 .. MaxEntries
ListingTypes == {"web", "widget"}
Titles == {"SECRET", "Top Secret"}      \* the titles of AccessControl rows

Some(x) == <<x>>
Nothing == <<>>

\* the messages of import_bookmarks and batch_update_user_library_entry
MSG_NO_NOTIFICATION == "Could not find Notification Entry"
MSG_USERNAME == "Target username does not match current user's username"
MSG_FOLDER_NAME == "Could not find folder_name entry"
MSG_BOOKMARK_LIST == "Could not find peer bookmark list entry"
MSG_MISSING_LISTING == "Missing listing from data entry"
MSG_LISTING_NOT_FOUND == "Listing obj not found"
MSG_MISSING_ID == "Missing id from data entry"
\* the message of the Exception of create_self_user_library_entry
MSG_NOT_FOUND == "Listing or user not found"

\* The catalog (external): the fields of listing l that the library reads.
listing_type_title(l) == IF l % 2 = 1 THEN "web" ELSE "widget"
is_enabled(l) == l % 3 # 0
is_private(l) == l % 2 = 0

\* utils.make_keysafe: lower case, non-alphanumerics removed.
make_keysafe(s) ==
    CASE s = "Bob.B" -> "bobb"
      [] s = "SECRET" -> "secret"
      [] s = "Top Secret" -> "topsecret"
      [] OTHER -> s

\* listing_model_access.get_listing_by_id(username, id): the listing, or
\* None when it does not exist or is not visible to username.
get_listing_by_id(username, id) ==
    IF id \in ListingIds /\ (~is_private(id) \/ username = "alice")
    THEN Some(id) ELSE Nothing

\* generic_model_access.get_profile(username)
get_profile(username) == IF username \in Profiles THEN Some(username) ELSE Nothing

-----------------------------------------------------------------------------
(* The cache: a function from the keys that are set to their values. *)

EmptyCache == [k \in {} |-> Nothing]

cache_get(c, key) == IF key \in DOMAIN c THEN Some(c[key]) ELSE Nothing

cache_set(c, key, value) ==
    [k \in DOMAIN c \cup {key} |-> IF k = key THEN value ELSE c[k]]

-----------------------------------------------------------------------------
(* Queries on the LibraryEntry table.  A row is                           *)
(* [id, listing (id), owner (username), folder (a folder or None)].        *)

Entry(id, listing, owner, folder) ==
    [id |-> id, listing |-> listing, owner |-> owner, folder |-> folder]

RECURSIVE FilterSeq(_, _)
\* the rows of es whose index is in the set keep, in id order
FilterSeq(es, keep) ==
    IF es = <<>> THEN <<>>
    ELSE LET front == FilterSeq(SubSeq(es, 1, Len(es) - 1), keep)
         IN IF Len(es) \in keep THEN Append(front, es[Len(es)]) ELSE front

\* ApplicationLibraryEntry.objects.filter(listing__is_deleted=False)
NotDeletedRows(es, del) ==
    FilterSeq(es, {i \in 1 .. Len(es) : es[i].listing \notin del})

-----------------------------------------------------------------------------
(* The read-through accessors.  Each returns the cache after the call, the *)
(* value returned and the cache / repository calls issued.                 *)

Ev(name, arg) == [ev |-> name, arg |-> arg]

Outcome(c, result, l) == [cache |-> c, result |-> result, log |-> l]

library_entry_key(library_entry_id) == "library:" \o ToString(library_entry_id)

app_library_key(listing_type, safe_username) ==
    "app_library(" \o listing_type \o "):" \o safe_username

\* models.ApplicationLibraryEntry.objects.filter(listing__is_deleted=False).get(id=..):
\* the row, or Nothing for ObjectDoesNotExist
QueryEntryById(es, del, library_entry_id) ==
    IF library_entry_id \in 1 .. Len(es) /\ es[library_entry_id].listing \notin del
    THEN Some(es[library_entry_id]) ELSE Nothing

get_all_library_entries(c, es, del) ==
    LET key == "library_entries"
        data == cache_get(c, key)
    IN IF data = Nothing
       THEN LET rows == NotDeletedRows(es, del)
            IN Outcome(cache_set(c, key, rows), Some(rows),
                       <<Ev("cache.get", 0), Ev("query", 0), Ev("cache.set", 0)>>)
       ELSE Outcome(c, data, <<Ev("cache.get", 0)>>)

\* the mutant of get_library_entry_by_id: the value computed on a miss is
\* not stored in the cache
get_library_entry_by_id_no_set(c, es, del, library_entry_id) ==
    LET key == library_entry_key(library_entry_id)
        data == cache_get(c, key)
    IN IF data = Nothing
       THEN Outcome(c, QueryEntryById(es, del, library_entry_id),
                    <<Ev("cache.get", library_entry_id), Ev("query", library_entry_id)>>)
       ELSE Outcome(c, data, <<Ev("cache.get", library_entry_id)>>)

get_library_entry_by_id(c, es, del, library_entry_id) ==
    LET key == library_entry_key(library_entry_id)
        data == cache_get(c, key)
    IN IF data = Nothing
       THEN LET row == QueryEntryById(es, del, library_entry_id)
            IN IF row # Nothing
               THEN Outcome(cache_set(c, key, row[1]), row,
                            <<Ev("cache.get", library_entry_id),
                              Ev("query", library_entry_id),
                              Ev("cache.set", library_entry_id)>>)
               ELSE Outcome(c, Nothing,
                            <<Ev("cache.get", library_entry_id),
                              Ev("query", library_entry_id)>>)
       ELSE Outcome(c, data, <<Ev("cache.get", library_entry_id)>>)

\* the chain of filters of get_self_application_library, lines 90-99
SelfLibraryRows(es, del, username, listing_type, folder_name) ==
    FilterSeq(es, {i \in 1 .. Len(es) :
        /\ es[i].owner = username
        /\ is_enabled(es[i].listing)
        /\ es[i].listing \notin del
        /\ (listing_type # None => listing_type_title(es[i].listing) = listing_type)
        /\ (folder_name # None => es[i].folder = folder_name)})

get_self_application_library(c, es, del, username_arg, listing_type, folder_name) ==
    LET username == make_keysafe(username_arg)
        key == app_library_key(listing_type, username)
        data == cache_get(c, key)
    IN IF data = Nothing
       THEN LET rows == SelfLibraryRows(es, del, username, listing_type, folder_name)
            IN Outcome(cache_set(c, key, rows), Some(rows),
                       <<Ev("cache.get", 0), Ev("query", 0), Ev("cache.set", 0)>>)
       ELSE Outcome(c, data, <<Ev("cache.get", 0)>>)

-----------------------------------------------------------------------------
(* The accessors of access_control/model_access.py.  The AccessControl     *)
(* table is the set of the titles of its rows; a row is [title].           *)

AccessControl(title) == [title |-> title]

access_control_key(title) == "access_control:" \o make_keysafe(title)

\* models.AccessControl.objects.get(title=title): the row, or Nothing for
\* ObjectDoesNotExist
QueryAccessControlByTitle(acs, title) ==
    IF title \in acs THEN Some(AccessControl(title)) ELSE Nothing

get_all_access_controls(c, acs) ==
    LET key == "access_control"
        data == cache_get(c, key)
    IN IF data = Nothing
       THEN LET rows == {AccessControl(t) : t \in acs}
            IN Outcome(cache_set(c, key, rows), Some(rows),
                       <<Ev("cache.get", 0), Ev("query", 0), Ev("cache.set", 0)>>)
       ELSE Outcome(c, data, <<Ev("cache.get", 0)>>)

\* the mutant of get_access_control_by_title: a title that is not found is
\* cached as a row without a title
get_access_control_by_title_caches_absent(c, acs, title) ==
    LET key == access_control_key(title)
        data == cache_get(c, key)
    IN IF data = Nothing
       THEN LET row == QueryAccessControlByTitle(acs, title)
            IN Outcome(cache_set(c, key, IF row # Nothing THEN row[1]
                                         ELSE AccessControl(None)),
                       row,
                       <<Ev("cache.get", 0), Ev("query", 0), Ev("cache.set", 0)>>)
       ELSE Outcome(c, data, <<Ev("cache.get", 0)>>)

get_access_control_by_title(c, acs, title) ==
    LET key == access_control_key(title)
        data == cache_get(c, key)
    IN IF data = Nothing
       THEN LET row == QueryAccessControlByTitle(acs, title)
            IN IF row # Nothing
               THEN Outcome(cache_set(c, key, row[1]), row,
                            <<Ev("cache.get", 0), Ev("query", 0), Ev("cache.set", 0)>>)
               ELSE Outcome(c, Nothing, <<Ev("cache.get", 0), Ev("query", 0)>>)
       ELSE Outcome(c, data, <<Ev("cache.get", 0)>>)

-----------------------------------------------------------------------------
(* create_self_user_library_entry *)

\* models.ApplicationLibraryEntry(...).save(): a new row with the next id
SaveNewEntry(es, listing, owner, folder) ==
    Append(es, Entry(Len(es) + 1, listing, owner, folder))

\* the mutant of create_self_user_library_entry: only the listing is
\* checked, and an entry without owner is saved for a user without profile
create_self_user_library_entry_no_owner_check(es, username, listing_id, folder_name) ==
    LET listing == get_listing_by_id(username, listing_id)
        owner == get_profile(username)
    IN IF listing = Nothing
       THEN [entries |-> es, raised |-> TRUE, error |-> MSG_NOT_FOUND, entry |-> Nothing]
       ELSE LET saved == SaveNewEntry(es, listing[1],
                                      IF owner = Nothing THEN None ELSE owner[1],
                                      folder_name)
            IN [entries |-> saved, raised |-> FALSE, error |-> None,
                entry |-> Some(saved[Len(saved)])]

\* [entries after the call, raised, the message of the Exception raised,
\* the entry returned]
create_self_user_library_entry(es, username, listing_id, folder_name) ==
    LET listing == get_listing_by_id(username, listing_id)
        owner == get_profile(username)
    IN IF listing = Nothing \/ owner = Nothing
       THEN [entries |-> es, raised |-> TRUE, error |-> MSG_NOT_FOUND, entry |-> Nothing]
       ELSE LET saved == SaveNewEntry(es, listing[1], owner[1], folder_name)
            IN [entries |-> saved, raised |-> FALSE, error |-> None,
                entry |-> Some(saved[Len(saved)])]

-----------------------------------------------------------------------------
(* batch_update_user_library_entry.  A payload entry is a dict             *)
(* [listing, id, folder]; each field is Nothing when the key is absent.    *)
(* listing holds the value of data_entry['listing'].get('id').             *)

DataEntry(listing, id, folder) == [listing |-> listing, id |-> id, folder |-> folder]

\* one pass of the validation loop, lines 249-278: the messages appended to
\* errors and the new_data_entry appended to validated_data (or none)
BatchValidateEntry(username, data_entry) ==
    LET listing_obj == IF data_entry.listing = Nothing THEN Nothing
                       ELSE get_listing_by_id(username, data_entry.listing[1])
        listing_errors == IF data_entry.listing = Nothing
                          THEN <<MSG_MISSING_LISTING>>
                          ELSE IF listing_obj = Nothing
                               THEN <<MSG_LISTING_NOT_FOUND>>
                               ELSE <<>>
        id_errors == IF data_entry.id = Nothing
                     THEN <<MSG_MISSING_ID>> ELSE <<>>
        folder == IF data_entry.folder = Nothing THEN None ELSE data_entry.folder[1]
        errs == listing_errors \o id_errors
    IN [errors |-> errs,
        validated |-> IF errs = <<>>
                      THEN <<[listing |-> listing_obj[1], id |-> data_entry.id[1],
                              folder |-> folder]>>
                      ELSE <<>>]

RECURSIVE BatchValidate(_, _)
\* the validation loop, lines 245-278: [errors, validated_data]
BatchValidate(username, data) ==
    IF data = <<>> THEN [errors |-> <<>>, validated |-> <<>>]
    ELSE LET front == BatchValidate(username, SubSeq(data, 1, Len(data) - 1))
             this == BatchValidateEntry(username, data[Len(data)])
         IN [errors |-> front.errors \o this.errors,
             validated |-> front.validated \o this.validated]

\* instance.folder = ..; instance.listing = ..; instance.save(), lines 285-287:
\* the row with the instance's id is overwritten with the instance's fields
SaveInstance(es, instance, data_entry) ==
    [es EXCEPT ![instance.id] =
        [instance EXCEPT !.folder = data_entry.folder, !.listing = data_entry.listing]]

RECURSIVE BatchApply(_, _, _, _)
\* the apply loop, lines 283-287, from the table es and the cache c.  It
\* stops where get_library_entry_by_id returns None (instance.folder then
\* raises AttributeError); the saves made before that stay.
BatchApply(es, c, del, validated_data) ==
    IF validated_data = <<>>
    THEN [entries |-> es, cache |-> c, raised |-> FALSE, log |-> <<>>]
    ELSE LET data_entry == Head(validated_data)
             got == get_library_entry_by_id(c, es, del, data_entry.id)
         IN IF got.result = Nothing
            THEN [entries |-> es, cache |-> got.cache, raised |-> TRUE, log |-> got.log]
            ELSE LET saved == SaveInstance(es, got.result[1], data_entry)
                     rest == BatchApply(saved, got.cache, del, Tail(validated_data))
                 IN [entries |-> rest.entries, cache |-> rest.cache,
                     raised |-> rest.raised,
                     log |-> got.log \o <<Ev("save", data_entry.id)>> \o rest.log]

\* the mutant of BatchRejected: the entries that validated are applied
\* before the errors are returned
BatchRejected_applies(es, c, del, v) ==
    LET a == BatchApply(es, c, del, v.validated)
    IN [entries |-> a.entries, cache |-> a.cache, log |-> a.log,
        ret |-> [raised |-> FALSE, errors |-> Some(v.errors), data |-> Nothing]]

\* lines 280-281, "if errors: return errors, None": nothing is applied
BatchRejected(es, c, del, v) ==
    [entries |-> es, cache |-> c, log |-> <<>>,
     ret |-> [raised |-> FALSE, errors |-> Some(v.errors), data |-> Nothing]]

\* the whole handler: the table and the cache after the call, what it
\* returned (errors, data) or that it raised, and the calls it issued
batch_update_user_library_entry(es, c, del, username, data) ==
    LET v == BatchValidate(username, data)
    IN IF v.errors # <<>>
       THEN BatchRejected(es, c, del, v)
       ELSE LET a == BatchApply(es, c, del, v.validated)
            IN [entries |-> a.entries, cache |-> a.cache, log |-> a.log,
                ret |-> IF a.raised
                        THEN [raised |-> TRUE, errors |-> Nothing, data |-> Nothing]
                        ELSE [raised |-> FALSE, errors |-> Nothing, data |-> Some(data)]]

-----------------------------------------------------------------------------
(* import_bookmarks.  A notification is [type, peer]; peer is the payload  *)
(* dict [username, folder_name, ids], each field Nothing when the key is   *)
(* absent: username is peer['user']['username'], ids is                    *)
(* peer['_bookmark_listing_ids'].  dismissed holds <<notification id,      *)
(* username>> for every dismissal.                                         *)

Peer(username, folder_name, ids) ==
    [username |-> username, folder_name |-> folder_name, ids |-> ids]

Notification(type, peer) == [type |-> type, peer |-> peer]

\* notification_model_access.get_notification_by_id(username, id): the
\* notification, unless it does not exist or username has dismissed it
get_notification_by_id(ns, dis, username, id) ==
    IF id \in 1 .. Len(ns) /\ <<id, username>> \notin dis THEN Some(ns[id]) ELSE Nothing

\* notification_model_access.dismiss_notification(notification_entry, username)
dismiss_notification(dis, id, username) == dis \cup {<<id, username>>}

\* peer_data.get('_bookmark_listing_ids', [])
peer_bookmark_list_of(peer) == IF peer.ids = Nothing THEN <<>> ELSE peer.ids[1]

\* the mutant of ImportPayloadErrors: only the first failing check reports
ImportPayloadErrors_first_only(peer, current_username) ==
    IF peer.username # Some(current_username)
    THEN <<MSG_USERNAME>>
    ELSE IF peer.folder_name = Nothing
         THEN <<MSG_FOLDER_NAME>>
         ELSE IF peer_bookmark_list_of(peer) = <<>>
              THEN <<MSG_BOOKMARK_LIST>>
              ELSE <<>>

\* lines 186-193: the messages of the three payload checks, in order
ImportPayloadErrors(peer, current_username) ==
    (IF peer.username # Some(current_username)
     THEN <<MSG_USERNAME>> ELSE <<>>)
    \o (IF peer.folder_name = Nothing
        THEN <<MSG_FOLDER_NAME>> ELSE <<>>)
    \o (IF peer_bookmark_list_of(peer) = <<>>
        THEN <<MSG_BOOKMARK_LIST>> ELSE <<>>)

\* lines 165-198: the errors of the validation phase and the steps taken
ImportValidate(notification_entry, current_username) ==
    IF notification_entry = Nothing
    THEN [errors |-> <<MSG_NO_NOTIFICATION>>,
          log |-> <<Ev("get_notification", 0)>>]
    ELSE IF notification_entry[1].type # "PEER.BOOKMARK"
         THEN [errors |-> <<"Notification Entry should be 'PEER.BOOKMARK' but it is '"
                            \o notification_entry[1].type \o "'">>,
               log |-> <<Ev("get_notification", 0), Ev("check_type", 0)>>]
         ELSE [errors |-> ImportPayloadErrors(notification_entry[1].peer, current_username),
               log |-> <<Ev("get_notification", 0), Ev("check_type", 0),
                         Ev("check_username", 0), Ev("check_folder_name", 0),
                         Ev("check_bookmark_list", 0)>>]

RECURSIVE ImportCreateLoop_aborts(_, _, _, _)
\* the mutant of ImportCreateLoop: the loop ends at the first create that raises
ImportCreateLoop_aborts(es, current_username, peer_bookmark_list, peer_folder_name) ==
    IF peer_bookmark_list = <<>>
    THEN [entries |-> es, validated_data |-> <<>>, log |-> <<>>]
    ELSE LET id == Head(peer_bookmark_list)
             made == create_self_user_library_entry(es, current_username, id, peer_folder_name)
             rest == ImportCreateLoop_aborts(made.entries, current_username,
                                             Tail(peer_bookmark_list), peer_folder_name)
         IN IF made.raised
            THEN [entries |-> es, validated_data |-> <<>>,
                  log |-> <<Ev("create_raised", id)>>]
            ELSE [entries |-> rest.entries,
                  validated_data |-> made.entry \o rest.validated_data,
                  log |-> <<Ev("create", id)>> \o rest.log]

RECURSIVE ImportCreateLoop_default_folder(_, _, _, _)
\* the mutant of ImportCreateLoop: the creates are called without the
\* folder name of the payload
ImportCreateLoop_default_folder(es, current_username, peer_bookmark_list, peer_folder_name) ==
    IF peer_bookmark_list = <<>>
    THEN [entries |-> es, validated_data |-> <<>>, log |-> <<>>]
    ELSE LET id == Head(peer_bookmark_list)
             made == create_self_user_library_entry(es, current_username, id, None)
             rest == ImportCreateLoop_default_folder(made.entries, current_username,
                                                     Tail(peer_bookmark_list), peer_folder_name)
         IN [entries |-> rest.entries,
             validated_data |-> made.entry \o rest.validated_data,
             log |-> <<Ev(IF made.raised THEN "create_raised" ELSE "create", id)>>
                     \o rest.log]

RECURSIVE ImportCreateLoop(_, _, _, _)
\* lines 200-204: one create per id, in order; a create that raises is
\* skipped.  [the table after the loop, validated_data, the calls issued]
ImportCreateLoop(es, current_username, peer_bookmark_list, peer_folder_name) ==
    IF peer_bookmark_list = <<>>
    THEN [entries |-> es, validated_data |-> <<>>, log |-> <<>>]
    ELSE LET id == Head(peer_bookmark_list)
             made == create_self_user_library_entry(es, current_username, id, peer_folder_name)
             rest == ImportCreateLoop(made.entries, current_username,
                                      Tail(peer_bookmark_list), peer_folder_name)
         IN [entries |-> rest.entries,
             validated_data |-> made.entry \o rest.validated_data,
             log |-> <<Ev(IF made.raised THEN "create_raised" ELSE "create", id)>>
                     \o rest.log]

\* the mutant of ImportRejected: the notification is dismissed although
\* the import is rejected
ImportRejected_dismisses(es, dis, current_username, id, v) ==
    [entries |-> es, dismissed |-> dismiss_notification(dis, id, current_username),
     log |-> v.log \o <<Ev("dismiss_notification", id)>>,
     ret |-> [errors |-> Some(v.errors), entries |-> Nothing]]

\* the mutant of ImportRejected: an empty list is returned beside the errors
ImportRejected_with_list(es, dis, current_username, id, v) ==
    [entries |-> es, dismissed |-> dis, log |-> v.log,
     ret |-> [errors |-> Some(v.errors), entries |-> Some(<<>>)]]

\* lines 172, 178, 198, "return errors, None": no create, no dismissal
ImportRejected(es, dis, current_username, id, v) ==
    [entries |-> es, dismissed |-> dis, log |-> v.log,
     ret |-> [errors |-> Some(v.errors), entries |-> Nothing]]

\* the mutant of ImportApply: the notification is dismissed before the loop
ImportApply_dismiss_first(es, dis, current_username, id, peer, errors) ==
    LET loop == ImportCreateLoop(es, current_username,
                                 peer_bookmark_list_of(peer), peer.folder_name[1])
    IN [entries |-> loop.entries,
        dismissed |-> dismiss_notification(dis, id, current_username),
        log |-> <<Ev("dismiss_notification", id)>> \o loop.log,
        ret |-> [errors |-> Nothing, entries |-> Some(loop.validated_data)]]

\* lines 200-210, the apply phase: the create loop, then the dismissal,
\* then the return
ImportApply(es, dis, current_username, id, peer, errors) ==
    LET loop == ImportCreateLoop(es, current_username,
                                 peer_bookmark_list_of(peer), peer.folder_name[1])
    IN [entries |-> loop.entries,
        dismissed |-> dismiss_notification(dis, id, current_username),
        log |-> loop.log \o <<Ev("dismiss_notification", id)>>,
        ret |-> IF errors # <<>>
                THEN [errors |-> Some(errors), entries |-> Nothing]
                ELSE [errors |-> Nothing, entries |-> Some(loop.validated_data)]]

\* the whole handler: the table and the dismissals after the call, what it
\* returned (errors, entries) and the steps taken
import_bookmarks(es, ns, dis, current_username, peer_bookmark_notification_id) ==
    LET notification_entry ==
            get_notification_by_id(ns, dis, current_username, peer_bookmark_notification_id)
        v == ImportValidate(notification_entry, current_username)
    IN IF v.errors # <<>>
       THEN ImportRejected(es, dis, current_username, peer_bookmark_notification_id, v)
       ELSE LET a == ImportApply(es, dis, current_username, peer_bookmark_notification_id,
                                 notification_entry[1].peer, v.errors)
            IN [entries |-> a.entries, dismissed |-> a.dismissed,
                log |-> v.log \o a.log, ret |-> a.ret]

-----------------------------------------------------------------------------
(* Actions *)

Idle == call.op = "idle"

\* the response has been delivered; the next request starts from here
Respond ==
    /\ ~Idle
    /\ call' = [op |-> "idle"]
    /\ ret' = Nothing
    /\ log' = <<>>
    /\ UNCHANGED <<entries, deleted, notifications, dismissed, cache, access_controls, inflight>>

\* the catalog marks a listing deleted (external to the library)
DeleteListing(l) ==
    /\ l \notin deleted
    /\ deleted' = deleted \cup {l}
    /\ call' = [op |-> "delete_listing", listing |-> l]
    /\ ret' = Nothing
    /\ log' = <<>>
    /\ UNCHANGED <<entries, notifications, dismissed, cache, access_controls, inflight>>

GetAllLibraryEntries ==
    LET o == get_all_library_entries(cache, entries, deleted)
    IN /\ cache' = o.cache
       /\ call' = [op |-> "get_all_library_entries"]
       /\ ret' = o.result
       /\ log' = o.log
       /\ UNCHANGED <<entries, deleted, notifications, dismissed, access_controls, inflight>>

\* call.repeats: the call directly follows a call of the same accessor with
\* the same arguments; call.previous is what that call returned
GetLibraryEntryById(id) ==
    LET o == get_library_entry_by_id(cache, entries, deleted, id)
        repeats == call.op = "get_library_entry_by_id" /\ call.id = id
    IN /\ cache' = o.cache
       /\ call' = [op |-> "get_library_entry_by_id", id |-> id,
                   repeats |-> repeats, previous |-> IF repeats THEN ret ELSE Nothing]
       /\ ret' = o.result
       /\ log' = o.log
       /\ UNCHANGED <<entries, deleted, notifications, dismissed, access_controls, inflight>>

GetSelfApplicationLibrary(u, t, f) ==
    LET o == get_self_application_library(cache, entries, deleted, u, t, f)
        repeats == /\ call.op = "get_self_application_library"
                   /\ call.username = u
                   /\ call.listing_type = t
                   /\ call.folder_name = f
    IN /\ cache' = o.cache
       /\ call' = [op |-> "get_self_application_library",
                   username |-> u, listing_type |-> t, folder_name |-> f,
                   repeats |-> repeats, previous |-> IF repeats THEN ret ELSE Nothing]
       /\ ret' = o.result
       /\ log' = o.log
       /\ UNCHANGED <<entries, deleted, notifications, dismissed, access_controls, inflight>>

\* an AccessControl row is added to the table (external to the accessors)
AddAccessControl(title) ==
    /\ title \notin access_controls
    /\ access_controls' = access_controls \cup {title}
    /\ call' = [op |-> "add_access_control", title |-> title]
    /\ ret' = Nothing
    /\ log' = <<>>
    /\ UNCHANGED <<entries, deleted, notifications, dismissed, cache, inflight>>

GetAllAccessControls ==
    LET o == get_all_access_controls(cache, access_controls)
    IN /\ cache' = o.cache
       /\ call' = [op |-> "get_all_access_controls"]
       /\ ret' = o.result
       /\ log' = o.log
       /\ UNCHANGED <<entries, deleted, notifications, dismissed, access_controls, inflight>>

GetAccessControlByTitle(title) ==
    LET o == get_access_control_by_title(cache, access_controls, title)
    IN /\ cache' = o.cache
       /\ call' = [op |-> "get_access_control_by_title", title |-> title]
       /\ ret' = o.result
       /\ log' = o.log
       /\ UNCHANGED <<entries, deleted, notifications, dismissed, access_controls, inflight>>

\* the mutant of CreateSelfUserLibraryEntry: a successful create purges the
\* cached list of all entries
CreateSelfUserLibraryEntry_purges(u, l, f) ==
    LET o == create_self_user_library_entry(entries, u, l, f)
    IN /\ Len(o.entries) <= MaxEntries
       /\ entries' = o.entries
       /\ call' = [op |-> "create_self_user_library_entry",
                   username |-> u, listing_id |-> l, folder_name |-> f]
       /\ ret' = [raised |-> o.raised, error |-> o.error, entry |-> o.entry]
       /\ log' = IF o.raised THEN <<>> ELSE <<Ev("save", Len(entries) + 1)>>
       /\ cache' = IF o.raised THEN cache
                   ELSE [k \in DOMAIN cache \ {"library_entries"} |-> cache[k]]
       /\ UNCHANGED <<deleted, notifications, dismissed, access_controls, inflight>>

CreateSelfUserLibraryEntry(u, l, f) ==
    LET o == create_self_user_library_entry(entries, u, l, f)
    IN /\ Len(o.entries) <= MaxEntries
       /\ entries' = o.entries
       /\ call' = [op |-> "create_self_user_library_entry",
                   username |-> u, listing_id |-> l, folder_name |-> f]
       /\ ret' = [raised |-> o.raised, error |-> o.error, entry |-> o.entry]
       /\ log' = IF o.raised THEN <<>> ELSE <<Ev("save", Len(entries) + 1)>>
       /\ UNCHANGED <<deleted, notifications, dismissed, cache, access_controls, inflight>>

BatchUpdateUserLibraryEntry(u, data) ==
    LET o == batch_update_user_library_entry(entries, cache, deleted, u, data)
    IN /\ entries' = o.entries
       /\ cache' = o.cache
       /\ call' = [op |-> "batch_update_user_library_entry", username |-> u, data |-> data]
       /\ ret' = o.ret
       /\ log' = o.log
       /\ UNCHANGED <<deleted, notifications, dismissed, access_controls, inflight>>

ImportBookmarks(u, nid) ==
    LET o == import_bookmarks(entries, notifications, dismissed, u, nid)
    IN /\ Len(o.entries) <= MaxEntries
       /\ entries' = o.entries
       /\ dismissed' = o.dismissed
       /\ call' = [op |-> "import_bookmarks", username |-> u, id |-> nid]
       /\ ret' = o.ret
       /\ log' = o.log
       /\ UNCHANGED <<deleted, notifications, cache, access_controls, inflight>>

-----------------------------------------------------------------------------
(* Concurrent requests.  The hosting service serves requests in parallel   *)
(* and the module takes no lock and opens no transaction, so a handler is  *)
(* atomic only in its single repository and cache calls.  A request that   *)
(* has started is a record of inflight: its operation and arguments, pc    *)
(* (the call it issues next, or "done") and its local variables.           *)

Requests == 1 .. MaxRequests

\* the request p has started and is the next to issue the call at pc of op
At(p, op, pc) ==
    /\ p \in DOMAIN inflight
    /\ inflight[p].op = op
    /\ inflight[p].pc = pc

\* import_bookmarks lines 165-198: the notification is read and validated;
\* a rejected request returns here
ImportBookmarksValidate(u, nid) ==
    LET notification_entry == get_notification_by_id(notifications, dismissed, u, nid)
        v == ImportValidate(notification_entry, u)
        rejected == v.errors # <<>>
        request ==
            [op |-> "import_bookmarks", username |-> u, id |-> nid,
             pc |-> IF rejected THEN "done" ELSE "create",
             todo |-> IF rejected THEN <<>>
                      ELSE peer_bookmark_list_of(notification_entry[1].peer),
             folder_name |-> IF rejected THEN None
                             ELSE notification_entry[1].peer.folder_name[1],
             validated_data |-> <<>>,
             ret |-> IF rejected
                     THEN Some(ImportRejected(entries, dismissed, u, nid, v).ret)
                     ELSE Nothing]
    IN /\ Len(inflight) < MaxRequests
       /\ inflight' = Append(inflight, request)
       /\ call' = [op |-> "import_bookmarks.validate", request |-> Len(inflight) + 1]
       /\ ret' = request.ret
       /\ log' = log \o v.log
       /\ UNCHANGED <<entries, deleted, notifications, dismissed, cache, access_controls>>

\* one pass of the loop of lines 200-204: the create for the next id
ImportBookmarksCreate(p) ==
    /\ At(p, "import_bookmarks", "create")
    /\ inflight[p].todo # <<>>
    /\ LET r == inflight[p]
           id == Head(r.todo)
           made == create_self_user_library_entry(entries, r.username, id, r.folder_name)
       IN /\ entries' = made.entries
          /\ inflight' = [inflight EXCEPT ![p] =
                             [r EXCEPT !.todo = Tail(r.todo),
                                       !.validated_data = r.validated_data \o made.entry]]
          /\ log' = Append(log, Ev(IF made.raised THEN "create_raised" ELSE "create", id))
    /\ call' = [op |-> "import_bookmarks.create", request |-> p]
    /\ ret' = Nothing
    /\ UNCHANGED <<deleted, notifications, dismissed, cache, access_controls>>

\* lines 206-210: after the loop, the dismissal and the return
ImportBookmarksDismiss(p) ==
    /\ At(p, "import_bookmarks", "create")
    /\ inflight[p].todo = <<>>
    /\ LET r == inflight[p]
           result == [errors |-> Nothing, entries |-> Some(r.validated_data)]
       IN /\ dismissed' = dismiss_notification(dismissed, r.id, r.username)
          /\ inflight' = [inflight EXCEPT ![p] = [r EXCEPT !.pc = "done",
                                                          !.ret = Some(result)]]
          /\ log' = Append(log, Ev("dismiss_notification", r.id))
          /\ ret' = Some(result)
    /\ call' = [op |-> "import_bookmarks.dismiss", request |-> p]
    /\ UNCHANGED <<entries, deleted, notifications, cache, access_controls>>

\* get_library_entry_by_id lines 56-58: cache.get; a hit returns
GetLibraryEntryByIdCacheGet(id) ==
    LET key == library_entry_key(id)
        data == cache_get(cache, key)
        request ==
            [op |-> "get_library_entry_by_id", id |-> id, key |-> key,
             pc |-> IF data = Nothing THEN "query" ELSE "done",
             missed |-> data = Nothing, data |-> data, stored |-> Nothing]
    IN /\ Len(inflight) < MaxRequests
       /\ inflight' = Append(inflight, request)
       /\ call' = [op |-> "get_library_entry_by_id.cache_get", request |-> Len(inflight) + 1]
       /\ ret' = data
       /\ log' = <<Ev("cache.get", id)>>
       /\ UNCHANGED <<entries, deleted, notifications, dismissed, cache, access_controls>>

\* line 60: the query; lines 63-64: not found returns None
GetLibraryEntryByIdQuery(p) ==
    /\ At(p, "get_library_entry_by_id", "query")
    /\ LET r == inflight[p]
           row == QueryEntryById(entries, deleted, r.id)
       IN inflight' = [inflight EXCEPT ![p] =
                          [r EXCEPT !.data = row,
                                    !.pc = IF row = Nothing THEN "done" ELSE "set"]]
    /\ call' = [op |-> "get_library_entry_by_id.query", request |-> p]
    /\ ret' = Nothing
    /\ log' = <<Ev("query", inflight[p].id)>>
    /\ UNCHANGED <<entries, deleted, notifications, dismissed, cache, access_controls>>

\* lines 61-62: cache.set of the row that was read, and the return
GetLibraryEntryByIdCacheSet(p) ==
    /\ At(p, "get_library_entry_by_id", "set")
    /\ LET r == inflight[p]
       IN /\ cache' = cache_set(cache, r.key, r.data[1])
          /\ inflight' = [inflight EXCEPT ![p] = [r EXCEPT !.stored = r.data,
                                                          !.pc = "done"]]
          /\ ret' = r.data
    /\ call' = [op |-> "get_library_entry_by_id.cache_set", request |-> p]
    /\ log' = <<Ev("cache.set", inflight[p].id)>>
    /\ UNCHANGED <<entries, deleted, notifications, dismissed, access_controls>>

\* get_all_library_entries lines 30-32: cache.get; a hit returns
GetAllLibraryEntriesCacheGet ==
    LET key == "library_entries"
        data == cache_get(cache, key)
        request ==
            [op |-> "get_all_library_entries", id |-> 0, key |-> key,
             pc |-> IF data = Nothing THEN "set" ELSE "done",
             missed |-> data = Nothing, data |-> data, stored |-> Nothing]
    IN /\ Len(inflight) < MaxRequests
       /\ inflight' = Append(inflight, request)
       /\ call' = [op |-> "get_all_library_entries.cache_get", request |-> Len(inflight) + 1]
       /\ ret' = data
       /\ log' = <<Ev("cache.get", 0)>>
       /\ UNCHANGED <<entries, deleted, notifications, dismissed, cache, access_controls>>

\* lines 34-36: the QuerySet of line 34 is lazy; it is evaluated when
\* cache.set pickles it, so the rows are read and stored in one step
GetAllLibraryEntriesCacheSet(p) ==
    /\ At(p, "get_all_library_entries", "set")
    /\ LET r == inflight[p]
           rows == NotDeletedRows(entries, deleted)
       IN /\ cache' = cache_set(cache, r.key, rows)
          /\ inflight' = [inflight EXCEPT ![p] = [r EXCEPT !.data = Some(rows),
                                                          !.stored = Some(rows),
                                                          !.pc = "done"]]
          /\ ret' = Some(rows)
    /\ call' = [op |-> "get_all_library_entries.cache_set", request |-> p]
    /\ log' = <<Ev("query", 0), Ev("cache.set", 0)>>
    /\ UNCHANGED <<entries, deleted, notifications, dismissed, access_controls>>

-----------------------------------------------------------------------------
(* Specifications *)

InitStore ==
    /\ entries = <<>>
    /\ deleted = {}
    /\ dismissed = {}
    /\ cache = EmptyCache
    /\ access_controls = {}
    /\ inflight = <<>>
    /\ call = [op |-> "idle"]
    /\ ret = Nothing
    /\ log = <<>>

InitRead == InitStore /\ notifications = <<>>

Catalog == \E l \in ListingIds : DeleteListing(l)

\* the reads and the creates of a user's library, and deletions in the
\* catalog
NextRead ==
    \/ \E id \in 1 .. MaxEntries + 1 : GetLibraryEntryById(id)
    \/ \E u \in Profiles, f \in Folders \cup {None} :
          GetSelfApplicationLibrary(u, None, f)
    \/ \E u \in Profiles, l \in ListingIds, f \in Folders \cup {None} :
          CreateSelfUserLibraryEntry(u, l, f)
    \/ Catalog

SpecRead == InitRead /\ [][NextRead]_vars

\* the payloads of batch_update_user_library_entry
DataEntries ==
    {DataEntry(l, i, f) :
        l \in {Nothing} \cup {Some(x) : x \in ListingIds},
        i \in {Nothing} \cup {Some(x) : x \in EntryIdArgs},
        f \in {Nothing} \cup {Some(x) : x \in Folders}}

RECURSIVE SeqsUpTo(_, _)
\* the sequences over S of length at most n
SeqsUpTo(S, n) ==
    IF n = 0 THEN {<<>>}
    ELSE LET shorter == SeqsUpTo(S, n - 1)
         IN shorter \cup {Append(q, x) : q \in {r \in shorter : Len(r) = n - 1}, x \in S}

Batches == SeqsUpTo(DataEntries, MaxBatch)

InitBatch == InitStore /\ notifications = <<>>

NextBatch ==
    \/ Idle /\ \E u \in Profiles : CreateSelfUserLibraryEntry(u, 1, None)
    \/ Idle /\ \E u \in Profiles, data \in Batches : BatchUpdateUserLibraryEntry(u, data)
    \/ Idle /\ Catalog
    \/ Respond

SpecBatch == InitBatch /\ [][NextBatch]_vars

\* the notifications of the store: peer bookmark notifications with every
\* payload, and one notification of another type
PeerPayloads ==
    {Peer(u, f, ids) :
        u \in {Nothing} \cup {Some(x) : x \in Usernames},
        f \in {Nothing} \cup {Some(x) : x \in Folders},
        ids \in {Nothing} \cup {Some(q) : q \in SeqsUpTo(ListingIdArgs, MaxIds)}}

NotificationValues ==
    {Notification("PEER.BOOKMARK", p) : p \in PeerPayloads}
    \cup {Notification("PEER", Peer(Some("alice"), Nothing, Nothing))}

NotificationIdArgs == {1, 2}            \* 2: an id of no notification

InitImport == InitStore /\ notifications \in {<<n>> : n \in NotificationValues}

NextImport ==
    \/ \E u \in Usernames, nid \in NotificationIdArgs : ImportBookmarks(u, nid)
    \/ \E u \in Profiles : CreateSelfUserLibraryEntry(u, 1, None)

SpecImport == InitImport /\ [][NextImport]_vars

\* writes until the first get_self_application_library, and from then on
\* only calls of get_self_application_library: no write to the repository
\* lies between these calls, and the first of them finds the cache empty.
\* The usernames are those that make_keysafe leaves as they are.
SelfReading == call.op = "get_self_application_library"

NextSelf ==
    \/ /\ ~SelfReading
       /\ \E u \in Profiles, l \in ListingIds, f \in Folders \cup {None} :
             CreateSelfUserLibraryEntry(u, l, f)
    \/ ~SelfReading /\ Catalog
    \/ \E u \in {x \in Profiles : make_keysafe(x) = x},
          t \in ListingTypes \cup {None}, f \in Folders \cup {None} :
          GetSelfApplicationLibrary(u, t, f)

SpecSelf == InitRead /\ [][NextSelf]_vars

\* creates with every username, listing id and folder, and the reads that
\* fill the cache
NextCreate ==
    \/ Idle /\ \E u \in Usernames, l \in ListingIdArgs, f \in Folders \cup {None} :
                  CreateSelfUserLibraryEntry(u, l, f)
    \/ Idle /\ GetAllLibraryEntries
    \/ Idle /\ \E id \in EntryIdArgs : GetLibraryEntryById(id)
    \/ Idle /\ GetSelfApplicationLibrary("alice", None, None)
    \/ Respond

SpecCreate == InitRead /\ [][NextCreate]_vars

\* the reads by id and by title, with the writes that make an id or a
\* title found (a create, a new AccessControl row) or not found (a deleted
\* listing)
NextNotFound ==
    \/ Idle /\ \E id \in 1 .. MaxEntries + 1 : GetLibraryEntryById(id)
    \/ Idle /\ \E t \in Titles : GetAccessControlByTitle(t)
    \/ Idle /\ GetAllAccessControls
    \/ Idle /\ \E t \in Titles : AddAccessControl(t)
    \/ Idle /\ \E u \in Profiles, f \in Folders \cup {None} :
                  CreateSelfUserLibraryEntry(u, 1, f)
    \/ Idle /\ Catalog
    \/ Respond

SpecNotFound == InitRead /\ [][NextNotFound]_vars

\* concurrent import requests for one notification that is addressed to
\* alice and passes the payload checks, and for an id of no notification
InitConcurrentImport ==
    /\ InitStore
    /\ notifications \in
          {<<Notification("PEER.BOOKMARK", Peer(Some("alice"), Some("f1"), Some(ids)))>> :
              ids \in SeqsUpTo(ListingIdArgs, MaxIds) \ {<<>>}}

NextConcurrentImport ==
    \/ \E u \in Profiles, nid \in NotificationIdArgs : ImportBookmarksValidate(u, nid)
    \/ \E p \in Requests : ImportBookmarksCreate(p)
    \/ \E p \in Requests : ImportBookmarksDismiss(p)

SpecConcurrentImport == InitConcurrentImport /\ [][NextConcurrentImport]_vars

\* concurrent reads, between whose calls creates, batch updates and
\* deletions in the catalog take place
NextConcurrentRead ==
    \/ \E id \in EntryIdArgs : GetLibraryEntryByIdCacheGet(id)
    \/ \E p \in Requests : GetLibraryEntryByIdQuery(p)
    \/ \E p \in Requests : GetLibraryEntryByIdCacheSet(p)
    \/ GetAllLibraryEntriesCacheGet
    \/ \E p \in Requests : GetAllLibraryEntriesCacheSet(p)
    \/ CreateSelfUserLibraryEntry("alice", 1, None)
    \/ \E id \in EntryIdArgs, f \in Folders \cup {None} :
          BatchUpdateUserLibraryEntry("alice",
              <<DataEntry(Some(1), Some(id), IF f = None THEN Nothing ELSE Some(f))>>)
    \/ Catalog

SpecConcurrentRead == InitRead /\ [][NextConcurrentRead]_vars

\* every operation of the library, one request after the other
Init ==
    /\ InitStore
    /\ notifications =
          <<Notification("PEER.BOOKMARK", Peer(Some("Bob.B"), Some("f1"), Some(<<1>>)))>>

Next ==
    \/ Idle /\ GetAllLibraryEntries
    \/ Idle /\ \E id \in EntryIdArgs : GetLibraryEntryById(id)
    \/ Idle /\ GetSelfApplicationLibrary("alice", None, None)
    \/ Idle /\ \E u \in Profiles : CreateSelfUserLibraryEntry(u, 1, None)
    \/ Idle /\ \E u \in Profiles : ImportBookmarks(u, 1)
    \/ Idle /\ \E e \in DataEntries : BatchUpdateUserLibraryEntry("alice", <<e>>)
    \/ Respond

Spec == Init /\ [][Next]_vars

-----------------------------------------------------------------------------
(* Properties of import_bookmarks, checked under SpecImport *)

IsImport == call.op = "import_bookmarks"

CreateEvents == {"create", "create_raised"}
PayloadCheckEvents == {"check_username", "check_folder_name", "check_bookmark_list"}

\* the positions of log whose event is in the set evs
Positions(l, evs) == {i \in 1 .. Len(l) : l[i].ev \in evs}

\* the elements of a sequence
Range(q) == {q[i] : i \in 1 .. Len(q)}

\* the ids of the notification of the last import
ImportedIds == peer_bookmark_list_of(notifications[call.id].peer)

\* C2: an import_bookmarks call that returns a non-null error list has
\* created no LibraryEntry and has dismissed no notification: the table and
\* the dismissals are as before the call, and it issued no create and no
\* dismiss_notification.
C2_RejectedImportMutatesNothing ==
    [][(IsImport' /\ ret'.errors # Nothing) =>
        /\ entries' = entries
        /\ dismissed' = dismissed
        /\ Positions(log', CreateEvents \cup {"dismiss_notification"}) = {}]_vars

\* a notification whose payload names another user was rejected although
\* its id list is not empty
C2_Witness ==
    /\ IsImport
    /\ ret.errors = Some(<<MSG_USERNAME>>)
    /\ call.id = 1
    /\ ImportedIds # <<>>

\* C3: an import that passes validation attempts one create per id of the
\* list, in the order of the list, whether or not earlier creates failed;
\* the entries returned are exactly the entries it added to the table, in
\* order, one for every id whose create succeeds (the listing resolves for
\* the user and the user's profile exists).
C3_ImportReturnsTheCreated ==
    [][(IsImport' /\ ret'.errors = Nothing) =>
        LET u == call'.username
            ids == peer_bookmark_list_of(notifications[call'.id].peer)
            Resolves(id) == get_listing_by_id(u, id) # Nothing /\ get_profile(u) # Nothing
            resolving == SelectSeq(ids, Resolves)
            attempts == SelectSeq(log', LAMBDA e : e.ev \in CreateEvents)
            created == ret'.entries[1]
        IN /\ Len(attempts) = Len(ids)
           /\ \A i \in 1 .. Len(ids) :
                 /\ attempts[i].arg = ids[i]
                 /\ attempts[i].ev = "create" <=> Resolves(ids[i])
           /\ Len(created) = Len(resolving)
           /\ Len(entries') = Len(entries) + Len(resolving)
           /\ SubSeq(entries', 1, Len(entries)) = entries
           /\ \A i \in 1 .. Len(created) :
                 /\ created[i] = entries'[Len(entries) + i]
                 /\ created[i].listing = resolving[i]]_vars

\* three ids, the second does not resolve: two entries are returned, for
\* the first and the third
C3_Witness ==
    /\ IsImport
    /\ ret.errors = Nothing
    /\ Len(ImportedIds) = 3
    /\ log[Len(log) - 2].ev = "create_raised"
    /\ Len(ret.entries[1]) = 2
    /\ ret.entries[1][1].listing = ImportedIds[1]
    /\ ret.entries[1][2].listing = ImportedIds[3]

\* C4: an import that reaches the apply phase dismisses its notification
\* exactly once, for the calling user, and after the create attempt for the
\* last id of the list, whether all, some or none of the creates succeeded.
C4_DismissedOnceAfterTheLoop ==
    (IsImport /\ ret.errors = Nothing) =>
        LET dismissals == Positions(log, {"dismiss_notification"})
            creates == Positions(log, CreateEvents)
        IN /\ Cardinality(dismissals) = 1
           /\ Cardinality(creates) = Len(ImportedIds)
           /\ \A d \in dismissals :
                 /\ log[d].arg = call.id
                 /\ d = Len(log)
                 /\ \A c \in creates : c < d
           /\ <<call.id, call.username>> \in dismissed

\* an import in which one create succeeded and one raised, dismissed at the end
C4_Witness ==
    /\ IsImport
    /\ ret.errors = Nothing
    /\ Positions(log, {"create"}) # {}
    /\ Positions(log, {"create_raised"}) # {}
    /\ log[Len(log)].ev = "dismiss_notification"

\* C9 as stated: exactly one of errors and importedEntries is non-empty:
\* a non-empty error list with null entries, or null errors with a
\* non-empty list of entries.
C9_ExactlyOneNonEmpty ==
    IsImport =>
        \/ ret.errors # Nothing /\ ret.errors[1] # <<>> /\ ret.entries = Nothing
        \/ ret.errors = Nothing /\ ret.entries # Nothing /\ ret.entries[1] # <<>>

\* C9 amended: exactly one of errors and importedEntries is non-null: a
\* non-empty error list with null entries, or null errors with a list of
\* entries, which is empty exactly when no create of the import succeeded.
C9_ExactlyOneNonNull ==
    IsImport =>
        \/ ret.errors # Nothing /\ ret.errors[1] # <<>> /\ ret.entries = Nothing
        \/ /\ ret.errors = Nothing
           /\ ret.entries # Nothing
           /\ ret.entries[1] = <<>> <=> Positions(log, {"create"}) = {}

\* an import that passed validation and created nothing returned (None, [])
C9_Witness ==
    /\ IsImport
    /\ ret.errors = Nothing
    /\ ret.entries = Some(<<>>)
    /\ ImportedIds # <<>>

\* C10: for a notification that is found and is a 'PEER.BOOKMARK', all
\* three payload checks are evaluated and the errors hold one message for
\* each failing check and nothing else; a notification that is not found
\* or has another type yields exactly one message and no payload check is
\* evaluated.
C10_PayloadErrorsAccumulate ==
    [][IsImport' =>
        LET u == call'.username
            found == get_notification_by_id(notifications, dismissed, u, call'.id)
            errs == IF ret'.errors = Nothing THEN <<>> ELSE ret'.errors[1]
            checks == {log'[i].ev : i \in Positions(log', PayloadCheckEvents)}
        IN IF found # Nothing /\ found[1].type = "PEER.BOOKMARK"
           THEN LET peer == found[1].peer
                    bad_username == peer.username # Some(u)
                    bad_folder == peer.folder_name = Nothing
                    bad_list == peer.ids = Nothing \/ peer.ids[1] = <<>>
                    failing == {m \in {MSG_USERNAME} : bad_username}
                               \cup {m \in {MSG_FOLDER_NAME} : bad_folder}
                               \cup {m \in {MSG_BOOKMARK_LIST} : bad_list}
                IN /\ checks = PayloadCheckEvents
                   /\ Range(errs) = failing
                   /\ Len(errs) = Cardinality(failing)
           ELSE /\ Len(errs) = 1
                /\ checks = {}]_vars

\* a notification failing all three payload checks returned three messages
C10_Witness ==
    /\ IsImport
    /\ ret.errors = Some(<<MSG_USERNAME, MSG_FOLDER_NAME, MSG_BOOKMARK_LIST>>)

-----------------------------------------------------------------------------
(* Properties of batch_update_user_library_entry, checked under SpecBatch *)

IsBatch == call.op = "batch_update_user_library_entry"

\* the payload entry fails validation for username: no 'listing' key, a
\* listing that does not resolve for username, or no 'id' key
EntryFails(username, data_entry) ==
    \/ data_entry.listing = Nothing
    \/ get_listing_by_id(username, data_entry.listing[1]) = Nothing
    \/ data_entry.id = Nothing

SomeEntryFails(username, data) ==
    \E i \in 1 .. Len(data) : EntryFails(username, data[i])

\* the folder a payload entry asks for
AskedFolder(data_entry) ==
    IF data_entry.folder = Nothing THEN None ELSE data_entry.folder[1]

C5_ValidBatchIsPersisted ==
    (IsBatch /\ ~SomeEntryFails(call.username, call.data)) =>
        /\ ret.raised = FALSE
        /\ ret.errors = Nothing
        /\ ret.data = Some(call.data)
        /\ \A i \in 1 .. Len(call.data) :
              LET id == call.data[i].id[1]
              IN /\ id \in 1 .. Len(entries)
                 /\ entries[id].folder = AskedFolder(call.data[i])
                 /\ entries[id].listing = call.data[i].listing[1]

-----------------------------------------------------------------------------
(* Properties of the read-through accessors *)

IsGetById == call.op = "get_library_entry_by_id"
IsGetSelf == call.op = "get_self_application_library"
IsGetAll == call.op = "get_all_library_entries"

\* the last call repeats the call before it: the same accessor, the same
\* arguments, nothing in between
IsRepeatedRead == (IsGetById \/ IsGetSelf) /\ call.repeats

\* C6 as stated (checked under SpecRead): the second of two calls of
\* get_library_entry_by_id, or of get_self_application_library, with the
\* same arguments and no repository mutation in between returns what the
\* first returned, and does not query the repository.
C6_SecondCallFromCache ==
    IsRepeatedRead =>
        /\ ret = call.previous
        /\ Positions(log, {"query"}) = {}

\* C6 amended (checked under SpecRead): the second call returns what the
\* first returned; it does not query the repository when the first call
\* returned a value; when the first call returned None, which only
\* get_library_entry_by_id does, nothing was cached and the second call
\* queries the repository again.
C6_SecondCallFromCacheIfFound ==
    IsRepeatedRead =>
        /\ ret = call.previous
        /\ ret # Nothing => Positions(log, {"query"}) = {}
        /\ ret = Nothing => IsGetById /\ Positions(log, {"query"}) # {}

\* an entry was read twice by id; the second read returned it from the cache
C6_Witness ==
    /\ IsGetById
    /\ call.repeats
    /\ ret # Nothing
    /\ ret = call.previous
    /\ log = <<Ev("cache.get", call.id)>>

IsWrite ==
    call.op \in {"create_self_user_library_entry", "import_bookmarks",
                 "batch_update_user_library_entry"}

\* C7 (checked under Spec): a create, an import or a batch update leaves
\* every key that is in the cache in the cache, with its value; and a
\* get_all_library_entries or get_library_entry_by_id whose key is in the
\* cache returns the cached value, whatever was written since.
C7_WritesKeepTheCache ==
    [][/\ IsWrite' => \A k \in DOMAIN cache : k \in DOMAIN cache' /\ cache'[k] = cache[k]
       /\ (IsGetAll' /\ "library_entries" \in DOMAIN cache) =>
             ret' = Some(cache["library_entries"])
       /\ (IsGetById' /\ library_entry_key(call'.id) \in DOMAIN cache) =>
             ret' = Some(cache[library_entry_key(call'.id)])]_vars

\* get_all_library_entries returned a cached list that a later write has
\* made different from the table
C7_Witness ==
    /\ IsGetAll
    /\ log = <<Ev("cache.get", 0)>>
    /\ ret # Some(NotDeletedRows(entries, deleted))

\* C8 as stated (checked under SpecSelf, where no write lies between the
\* calls of get_self_application_library): the call returns exactly the
\* entries owned by username whose listing is enabled and not deleted, of
\* the listing type when one is given and in the folder when one is given.
C8_SelfLibraryIsTheFilteredSet ==
    IsGetSelf =>
        ret = Some(SelfLibraryRows(entries, deleted, call.username,
                                   call.listing_type, call.folder_name))

-----------------------------------------------------------------------------
(* Properties of the not-found branch, checked under SpecNotFound *)

IsGetByTitle == call.op = "get_access_control_by_title"

\* C11: a get_library_entry_by_id or get_access_control_by_title that
\* misses the cache and whose repository query finds nothing returns None
\* and leaves the cache as it was, with no cache.set issued; and every
\* 'library:<id>' or 'access_control:<title>' key of the cache maps to a
\* row that was read from the repository: the LibraryEntry with that id,
\* or an AccessControl of the table whose title gives that key.
C11_NotFoundIsNotCached ==
    [][/\ (/\ IsGetById'
           /\ library_entry_key(call'.id) \notin DOMAIN cache
           /\ QueryEntryById(entries, deleted, call'.id) = Nothing) =>
             /\ ret' = Nothing
             /\ cache' = cache
             /\ Positions(log', {"cache.set"}) = {}
       /\ (/\ IsGetByTitle'
           /\ access_control_key(call'.title) \notin DOMAIN cache
           /\ QueryAccessControlByTitle(access_controls, call'.title) = Nothing) =>
             /\ ret' = Nothing
             /\ cache' = cache
             /\ Positions(log', {"cache.set"}) = {}
       /\ \A id \in 1 .. MaxEntries + 1 :
             library_entry_key(id) \in DOMAIN cache' =>
                /\ id \in 1 .. Len(entries')
                /\ cache'[library_entry_key(id)].id = id
                /\ cache'[library_entry_key(id)].owner = entries'[id].owner
       /\ \A t \in Titles :
             access_control_key(t) \in DOMAIN cache' =>
                /\ cache'[access_control_key(t)].title \in access_controls'
                /\ access_control_key(cache'[access_control_key(t)].title)
                      = access_control_key(t)]_vars

\* an entry whose listing has been deleted was read by id: the read missed
\* the cache, queried, returned None and set nothing, while other keys are
\* in the cache
C11_Witness ==
    /\ IsGetById
    /\ call.id \in 1 .. Len(entries)
    /\ entries[call.id].listing \in deleted
    /\ ret = Nothing
    /\ log = <<Ev("cache.get", call.id), Ev("query", call.id)>>
    /\ library_entry_key(call.id) \notin DOMAIN cache
    /\ DOMAIN cache # {}

-----------------------------------------------------------------------------
(* Properties of create_self_user_library_entry, checked under SpecCreate *)

IsCreate == call.op = "create_self_user_library_entry"

ListingResolves(username, listing_id) == get_listing_by_id(username, listing_id) # Nothing
ProfileExists(username) == get_profile(username) # Nothing

\* C12: a create whose listing resolves for username and whose profile
\* exists appends exactly one LibraryEntry (that listing, owner username,
\* folder folder_name) to the table and returns it; any other create
\* raises and leaves the table as it was; in both cases the cache is as it
\* was before the call.
C12_CreateHasTwoOutcomes ==
    [][IsCreate' =>
        LET u == call'.username
            l == call'.listing_id
            f == call'.folder_name
        IN /\ cache' = cache
           /\ IF ListingResolves(u, l) /\ ProfileExists(u)
              THEN /\ ret'.raised = FALSE
                   /\ Len(entries') = Len(entries) + 1
                   /\ SubSeq(entries', 1, Len(entries)) = entries
                   /\ entries'[Len(entries')] = Entry(Len(entries) + 1, l, u, f)
                   /\ ret'.entry = Some(entries'[Len(entries')])
              ELSE /\ ret'.raised = TRUE
                   /\ ret'.entry = Nothing
                   /\ entries' = entries]_vars

\* a create succeeded while the cache held the list of all entries, which
\* does not hold the new entry
C12_Witness ==
    /\ IsCreate
    /\ ret.raised = FALSE
    /\ ret.entry = Some(entries[Len(entries)])
    /\ "library_entries" \in DOMAIN cache
    /\ Len(cache["library_entries"]) < Len(entries)

\* C13 as stated: the error of a create that failed because only the
\* listing does not resolve differs from the error of every create that
\* fails because only the profile is missing.
C13_ErrorNamesTheMissingSide ==
    (IsCreate /\ ret.raised
       /\ ~ListingResolves(call.username, call.listing_id)
       /\ ProfileExists(call.username)) =>
        \A u \in Usernames, l \in ListingIdArgs :
            (ListingResolves(u, l) /\ ~ProfileExists(u)) =>
                create_self_user_library_entry(entries, u, l, None).error # ret.error

-----------------------------------------------------------------------------
(* Further properties of batch_update_user_library_entry, checked under    *)
(* SpecBatch                                                               *)

\* C14 as stated: a batch update by username leaves the folder and the
\* listing of every LibraryEntry that another user owns as they were,
\* whatever ids the batch names.
C14_BatchChangesOnlyOwnEntries ==
    [][IsBatch' =>
        \A i \in 1 .. Len(entries) :
            entries[i].owner # call'.username =>
                /\ i \in 1 .. Len(entries')
                /\ entries'[i].folder = entries[i].folder
                /\ entries'[i].listing = entries[i].listing]_vars

\* C15 as stated: however a batch update ends, the table is not left with
\* a part of the batch applied: a call that raises, or returns errors,
\* leaves the table as it was, and a call that returns the payload has
\* saved one entry for every entry of the payload.
C15_BatchApplyIsAtomic ==
    [][IsBatch' =>
        /\ ret'.raised => entries' = entries
        /\ ret'.errors # Nothing => entries' = entries
        /\ ret'.data # Nothing =>
              Cardinality(Positions(log', {"save"})) = Len(call'.data)]_vars

-----------------------------------------------------------------------------
(* A further property of import_bookmarks, checked under SpecImport *)

-----------------------------------------------------------------------------
(* Properties of concurrent requests *)

\* how often x occurs in the sequence q
Occurrences(q, x) == Cardinality({i \in 1 .. Len(q) : q[i] = x})

\* C16 as stated (checked under SpecConcurrentImport, where imports are
\* the only writers): over all the import requests, in sequence or
\* interleaved, every notification is dismissed at most once, and a user
\* has at most as many LibraryEntries of a listing as the id lists of the
\* notifications name that listing: no id list is imported twice.
C16_NotificationImportedOnce ==
    /\ \A nid \in 1 .. Len(notifications) :
          Cardinality({i \in Positions(log, {"dismiss_notification"}) :
                          log[i].arg = nid}) <= 1
    /\ \A u \in Profiles, l \in ListingIds :
          Cardinality({i \in 1 .. Len(entries) :
                          entries[i].owner = u /\ entries[i].listing = l})
            <= Occurrences(peer_bookmark_list_of(notifications[1].peer), l)

\* the requests that missed the cache on their key and have set it
RacedSetters ==
    {p \in DOMAIN inflight :
        /\ inflight[p].op \in {"get_library_entry_by_id", "get_all_library_entries"}
        /\ inflight[p].missed
        /\ inflight[p].stored # Nothing}

\* C17 as stated (checked under SpecConcurrentRead): two readers that both
\* missed the cache on the same key and both set it have stored the same
\* value, whatever took place between their calls.
C17_RacingSetsStoreTheSameValue ==
    \A p, q \in RacedSetters :
        inflight[p].key = inflight[q].key => inflight[p].stored = inflight[q].stored

====
